---- MODULE Spec2Model ----
(***************************************************************************)
(* The user store and the task store of the todo application               *)
(* (app/user_service.py, app/task_service.py over the tables of            *)
(* app/models.py), as a state machine.  Every store method runs inside one *)
(* `with get_session()` block, so one action is one whole call: its reads, *)
(* its writes, the commit and the value it returns.                        *)
(* For the properties about concurrent callers the methods that read and   *)
(* then write are also given as their two halves, run by the callers of    *)
(* `calls` in any interleaving.                                            *)
(*                                                                         *)
(* The wall clock (datetime.utcnow) is the variable `now`; it never runs   *)
(* backwards, and two calls may read the same instant (Tick is a separate  *)
(* step, so any number of calls fit between two ticks).                    *)
(***************************************************************************)
EXTENDS Integers, Sequences, FiniteSets, TLC

VARIABLES
    users,      \* rows of table "users"
    tasks,      \* rows of table "tasks"
    now,        \* the value datetime.utcnow() returns at this moment
    user_seq,   \* last primary key the database handed out for "users"
    task_seq,   \* last primary key the database handed out for "tasks"
    ret,        \* what the last call returned: [op, outcome, rows]
    calls       \* per concurrent caller, the call it is in the middle of

vars == <<users, tasks, now, user_seq, task_seq, ret, calls>>

----------------------------------------------------------------------------
\* Bounds of the model.

\* The clock runs from 0 to MaxTime.
MaxTime == 1

\* At most MaxTasks tasks are ever created where the task store is exercised
\* with every title, description and update (SpecTasks).
MaxTasks == 1

\* At most MaxListedTasks tasks are ever created where tasks are listed
\* (SpecListing).
MaxListedTasks == 2

----------------------------------------------------------------------------
\* Inputs the callers draw from.

DefaultEmail == "default@todo.app"

DefaultName == "Default User"

Names == {DefaultName, "Ann"}

Emails == {DefaultEmail, "ann@todo.app"}

Titles == {"t1", "t2"}

Descriptions == {"", "d1"}

\* The titles and descriptions update_task is called with.
NewTitles == {"t2"}

NewDescriptions == {""}

\* Email is unique, so there are never more users than emails; one id more
\* than that is always the id of no user.
UserIds == 1 .. (Cardinality(Emails) + 1)

\* The task ids a caller passes where the table hands out at most `bound`
\* ids: the largest is always the id of no task.
TaskIdsTo(bound) == 1 .. (bound + 1)

TaskIds == TaskIdsTo(MaxTasks)

ListedTaskIds == TaskIdsTo(MaxListedTasks)

\* Optional[T]: <<>> is None, <<v>> is the value v.
Opt(S) == {<<>>} \cup {<<v>> : v \in S}

\* Task.updated_at = None.
NoTime == -1

----------------------------------------------------------------------------
\* models.py

\* A row of "users" as User(name=..., email=...) builds it and the insert
\* completes it.
User(id, name, email) ==
    [id |-> id, name |-> name, email |-> email, is_active |-> TRUE,
     created_at |-> now]

\* A row of "tasks" as Task(title=..., description=..., user_id=...) builds
\* it and the insert completes it.
Task(id, title, description, user_id) ==
    [id |-> id, title |-> title, description |-> description,
     completed |-> FALSE, user_id |-> user_id, created_at |-> now,
     updated_at |-> NoTime]

\* The fields of TaskUpdate.
UpdateFields == {"title", "description", "completed"}

\* The values a TaskUpdate field holds: its default None when the caller
\* did not pass it, otherwise one of `values`.
Passed(f, fields_set, values) ==
    IF f \in fields_set THEN {<<v>> : v \in values} ELSE {<<>>}

\* TaskUpdate(...): fields_set is what the caller passed (pydantic's
\* model_fields_set); a field that was not passed holds its default, None.
\* A caller may also pass None explicitly; the updates drawn here do so for
\* one field at a time.
TaskUpdate ==
    UNION {[fields_set : {F},
            title : Passed("title", F, NewTitles),
            description : Passed("description", F, NewDescriptions),
            completed : Passed("completed", F, BOOLEAN)] :
           F \in SUBSET UpdateFields}
    \cup {[fields_set |-> {f}, title |-> <<>>, description |-> <<>>,
           completed |-> <<>>] : f \in UpdateFields}

\* title, description and completed are declared str/bool, not Optional:
\* their columns are NOT NULL, and a commit that would store None in one of
\* them fails with an IntegrityError.
NotNullViolated(update_data) ==
    \E f \in DOMAIN update_data : update_data[f] = <<>>

----------------------------------------------------------------------------
\* What a call returns.

ReturnNone(op) == [op |-> op, outcome |-> "none", rows |-> <<>>]

ReturnRow(op, row) == [op |-> op, outcome |-> "value", rows |-> <<row>>]

ReturnList(op, rows) == [op |-> op, outcome |-> "list", rows |-> rows]

ReturnBool(op, b) ==
    [op |-> op, outcome |-> IF b THEN "true" ELSE "false", rows |-> <<>>]

Raise(op) == [op |-> op, outcome |-> "raised", rows |-> <<>>]

\* The orders in which a query may return the rows S.
Orders(S) ==
    {s \in [1 .. Cardinality(S) -> S] :
        \A i, j \in 1 .. Cardinality(S) : i # j => s[i] # s[j]}

\* .first(): None on no row, otherwise one of the rows.
First(S) == IF S = {} THEN {<<>>} ELSE {<<r>> : r \in S}

\* A point lookup's return value.
ReturnOpt(op, r) == IF r = <<>> THEN ReturnNone(op) ELSE ReturnRow(op, r[1])

----------------------------------------------------------------------------
\* user_service.py

\* select(User).where(User.email == email)
select_user_by_email(email) == {u \in users : u.email = email}

\* session.get(User, user_id)
session_get_user(user_id) == {u \in users : u.id = user_id}

\* create_user as an upsert: on a duplicate email it overwrites the name of
\* the row it found.
create_user_upsert(name, email) ==
    IF select_user_by_email(email) # {}
    THEN /\ users' = {IF u.email = email THEN [u EXCEPT !.name = name] ELSE u :
                        u \in users}
         /\ ret' = ReturnNone("create_user")
         /\ UNCHANGED <<tasks, now, user_seq, task_seq, calls>>
    ELSE LET user == User(user_seq + 1, name, email)
         IN  /\ users' = users \cup {user}
             /\ user_seq' = user_seq + 1
             /\ ret' = ReturnRow("create_user", user)
             /\ UNCHANGED <<tasks, now, task_seq, calls>>

\* create_user taking its id from a key the table already handed out.
create_user_stale_id(name, email) ==
    IF select_user_by_email(email) # {}
    THEN /\ ret' = ReturnNone("create_user")
         /\ UNCHANGED <<users, tasks, now, user_seq, task_seq, calls>>
    ELSE LET user == User(IF user_seq = 0 THEN 1 ELSE user_seq, name, email)
         IN  /\ users' = users \cup {user}
             /\ user_seq' = user_seq + 1
             /\ ret' = ReturnRow("create_user", user)
             /\ UNCHANGED <<tasks, now, task_seq, calls>>

create_user(name, email) ==
    IF select_user_by_email(email) # {}
    THEN /\ ret' = ReturnNone("create_user")
         /\ UNCHANGED <<users, tasks, now, user_seq, task_seq, calls>>
    ELSE LET user == User(user_seq + 1, name, email)
         IN  /\ users' = users \cup {user}
             /\ user_seq' = user_seq + 1
             /\ ret' = ReturnRow("create_user", user)
             /\ UNCHANGED <<tasks, now, task_seq, calls>>

get_user_by_id(user_id) ==
    /\ \E r \in First(session_get_user(user_id)) :
          ret' = ReturnOpt("get_user_by_id", r)
    /\ UNCHANGED <<users, tasks, now, user_seq, task_seq, calls>>

get_user_by_email(email) ==
    /\ \E r \in First(select_user_by_email(email)) :
          ret' = ReturnOpt("get_user_by_email", r)
    /\ UNCHANGED <<users, tasks, now, user_seq, task_seq, calls>>

get_all_users ==
    /\ \E s \in Orders(users) : ret' = ReturnList("get_all_users", s)
    /\ UNCHANGED <<users, tasks, now, user_seq, task_seq, calls>>

\* get_or_create_default_user without its lookup: every call inserts a user.
get_or_create_default_user_insert ==
    LET user == User(user_seq + 1, DefaultName, DefaultEmail)
    IN  /\ users' = users \cup {user}
        /\ user_seq' = user_seq + 1
        /\ ret' = ReturnRow("get_or_create_default_user", user)
        /\ UNCHANGED <<tasks, now, task_seq, calls>>

get_or_create_default_user ==
    LET found == First(select_user_by_email(DefaultEmail))
    IN  \E r \in found :
          IF r # <<>>
          THEN /\ ret' = ReturnRow("get_or_create_default_user", r[1])
               /\ UNCHANGED <<users, tasks, now, user_seq, task_seq, calls>>
          ELSE \* create_user(UserCreate(name="Default User", email=...)),
               \* called right after the lookup found nothing
               LET user == User(user_seq + 1, DefaultName, DefaultEmail)
               IN  /\ users' = users \cup {user}
                   /\ user_seq' = user_seq + 1
                   /\ ret' = ReturnRow("get_or_create_default_user", user)
                   /\ UNCHANGED <<tasks, now, task_seq, calls>>

----------------------------------------------------------------------------
\* task_service.py

\* session.get(Task, task_id)
session_get_task(task_id) == {t \in tasks : t.id = task_id}

\* create_task without its check that the owner exists.
create_task_unchecked(title, description, user_id) ==
    LET task == Task(task_seq + 1, title, description, user_id)
    IN  /\ tasks' = tasks \cup {task}
        /\ task_seq' = task_seq + 1
        /\ ret' = ReturnRow("create_task", task)
        /\ UNCHANGED <<users, now, user_seq, calls>>

create_task(title, description, user_id) ==
    IF session_get_user(user_id) = {}
    THEN /\ ret' = ReturnNone("create_task")
         /\ UNCHANGED <<users, tasks, now, user_seq, task_seq, calls>>
    ELSE LET task == Task(task_seq + 1, title, description, user_id)
         IN  /\ tasks' = tasks \cup {task}
             /\ task_seq' = task_seq + 1
             /\ ret' = ReturnRow("create_task", task)
             /\ UNCHANGED <<users, now, user_seq, calls>>

\* The filter written `if completed:`: completed=False is taken for "no
\* filter".
where_user_tasks_truthy(user_id, completed) ==
    {t \in tasks :
        /\ t.user_id = user_id
        /\ completed = <<TRUE>> => t.completed = TRUE}

\* The query without its where(Task.user_id == user_id).
where_user_tasks_any_user(user_id, completed) ==
    {t \in tasks : completed # <<>> => t.completed = completed[1]}

\* The rows the query of get_user_tasks selects; completed is an
\* Optional[bool].
where_user_tasks(user_id, completed) ==
    {t \in tasks :
        /\ t.user_id = user_id
        /\ completed # <<>> => t.completed = completed[1]}

\* order_by(desc(Task.created_at)): the database may return rows of equal
\* created_at in any order.
order_by_desc_created_at(S) ==
    {s \in Orders(S) :
        \A i, j \in 1 .. Len(s) : i < j => s[i].created_at >= s[j].created_at}

\* Every list get_user_tasks(user_id, completed) may return in this state.
select_user_tasks(user_id, completed) ==
    order_by_desc_created_at(where_user_tasks(user_id, completed))

get_user_tasks(user_id, completed) ==
    /\ \E s \in select_user_tasks(user_id, completed) :
          ret' = ReturnList("get_user_tasks", s)
    /\ UNCHANGED <<users, tasks, now, user_seq, task_seq, calls>>

get_task_by_id(task_id) ==
    /\ \E r \in First(session_get_task(task_id)) :
          ret' = ReturnOpt("get_task_by_id", r)
    /\ UNCHANGED <<users, tasks, now, user_seq, task_seq, calls>>

\* The dump keeping only the fields that hold a truthy value: completed =
\* False and description = "" are taken for "not passed".
model_dump_truthy(task_data) ==
    [f \in {g \in task_data.fields_set :
              /\ task_data[g] # <<>>
              /\ task_data[g] # (IF g = "completed" THEN <<FALSE>> ELSE <<"">>)}
       |-> task_data[f]]

\* task_data.model_dump(exclude_unset=True)
model_dump_exclude_unset(task_data) ==
    [f \in task_data.fields_set |-> task_data[f]]

\* A full replace: a field the caller did not pass is reset to its column
\* default.
setattr_all_replace(task, update_data) ==
    [f \in DOMAIN task |->
        IF f \in DOMAIN update_data THEN update_data[f][1]
        ELSE IF f = "updated_at" THEN now
        ELSE IF f = "description" THEN ""
        ELSE IF f = "completed" THEN FALSE
        ELSE task[f]]

\* for field, value in update_data.items(): setattr(task, field, value),
\* then task.updated_at = datetime.utcnow()
setattr_all(task, update_data) ==
    [([f \in DOMAIN update_data |-> update_data[f][1]] @@ task)
        EXCEPT !.updated_at = now]

update_task(task_id, task_data) ==
    IF session_get_task(task_id) = {}
    THEN /\ ret' = ReturnNone("update_task")
         /\ UNCHANGED <<users, tasks, now, user_seq, task_seq, calls>>
    ELSE \E task \in session_get_task(task_id) :
           LET update_data == model_dump_exclude_unset(task_data)
           IN  IF NotNullViolated(update_data)
               THEN \* session.commit() raises; nothing is stored
                    /\ ret' = Raise("update_task")
                    /\ UNCHANGED <<users, tasks, now, user_seq, task_seq, calls>>
               ELSE LET updated == setattr_all(task, update_data)
                    IN  /\ tasks' = (tasks \ {task}) \cup {updated}
                        /\ ret' = ReturnRow("update_task", updated)
                        /\ UNCHANGED <<users, now, user_seq, task_seq, calls>>

\* "Mark as done" instead of a toggle: completed is set, never cleared.
toggle_task_completion_set(task_id) ==
    IF session_get_task(task_id) = {}
    THEN /\ ret' = ReturnNone("toggle_task_completion")
         /\ UNCHANGED <<users, tasks, now, user_seq, task_seq, calls>>
    ELSE \E task \in session_get_task(task_id) :
           LET toggled == [task EXCEPT !.completed = TRUE, !.updated_at = now]
           IN  /\ tasks' = (tasks \ {task}) \cup {toggled}
               /\ ret' = ReturnRow("toggle_task_completion", toggled)
               /\ UNCHANGED <<users, now, user_seq, task_seq, calls>>

\* toggle_task_completion without its `if task is None` check: reading
\* task.completed of None raises.
toggle_task_completion_unchecked(task_id) ==
    IF session_get_task(task_id) = {}
    THEN /\ ret' = Raise("toggle_task_completion")
         /\ UNCHANGED <<users, tasks, now, user_seq, task_seq, calls>>
    ELSE \E task \in session_get_task(task_id) :
           LET toggled == [task EXCEPT !.completed = ~task.completed,
                                       !.updated_at = now]
           IN  /\ tasks' = (tasks \ {task}) \cup {toggled}
               /\ ret' = ReturnRow("toggle_task_completion", toggled)
               /\ UNCHANGED <<users, now, user_seq, task_seq, calls>>

\* toggle_task_completion without task.updated_at = datetime.utcnow().
toggle_task_completion_no_timestamp(task_id) ==
    IF session_get_task(task_id) = {}
    THEN /\ ret' = ReturnNone("toggle_task_completion")
         /\ UNCHANGED <<users, tasks, now, user_seq, task_seq, calls>>
    ELSE \E task \in session_get_task(task_id) :
           LET toggled == [task EXCEPT !.completed = ~task.completed]
           IN  /\ tasks' = (tasks \ {task}) \cup {toggled}
               /\ ret' = ReturnRow("toggle_task_completion", toggled)
               /\ UNCHANGED <<users, now, user_seq, task_seq, calls>>

toggle_task_completion(task_id) ==
    IF session_get_task(task_id) = {}
    THEN /\ ret' = ReturnNone("toggle_task_completion")
         /\ UNCHANGED <<users, tasks, now, user_seq, task_seq, calls>>
    ELSE \E task \in session_get_task(task_id) :
           LET toggled == [task EXCEPT !.completed = ~task.completed,
                                       !.updated_at = now]
           IN  /\ tasks' = (tasks \ {task}) \cup {toggled}
               /\ ret' = ReturnRow("toggle_task_completion", toggled)
               /\ UNCHANGED <<users, now, user_seq, task_seq, calls>>

\* delete_task without its session.commit(): the row stays.
delete_task_uncommitted(task_id) ==
    /\ ret' = ReturnBool("delete_task", session_get_task(task_id) # {})
    /\ UNCHANGED <<users, tasks, now, user_seq, task_seq, calls>>

delete_task(task_id) ==
    IF session_get_task(task_id) = {}
    THEN /\ ret' = ReturnBool("delete_task", FALSE)
         /\ UNCHANGED <<users, tasks, now, user_seq, task_seq, calls>>
    ELSE \E task \in session_get_task(task_id) :
           /\ tasks' = tasks \ {task}
           /\ ret' = ReturnBool("delete_task", TRUE)
           /\ UNCHANGED <<users, now, user_seq, task_seq, calls>>

----------------------------------------------------------------------------
\* Concurrent callers.  A store method is a session scope: its reads happen
\* when its statements run, its writes when it commits, and another caller's
\* statements may run in between.  The actions below are the two halves of
\* the methods that read and then write; `calls` holds what a caller keeps
\* between them.

Callers == {"a", "b"}

\* No call in progress.
NoCall ==
    [op |-> "", pc |-> "idle", name |-> "", email |-> "", task |-> <<>>,
     stamp |-> NoTime, scopes |-> 0, session |-> FALSE, alone |-> TRUE]

\* A call in progress: op is the public method, pc the statement it is
\* about to run, name/email/task/stamp its local variables, scopes the number
\* of `with get_session()` blocks it has entered, session whether one is
\* open, and alone whether no other caller has run a statement since the
\* call began.
InCall(op, pc, name, email, task, stamp, scopes, session, alone) ==
    [op |-> op, pc |-> pc, name |-> name, email |-> email, task |-> task,
     stamp |-> stamp, scopes |-> scopes, session |-> session, alone |-> alone]

\* Caller c runs a statement and is left in `call`, keeping `returned` and
\* `overlapped` as given; every other call in progress is no longer alone.
\* returned is the parity of the toggles of c that have returned a task and
\* overlapped whether one of its toggles ran while another caller's did.
Step(c, call, returned, overlapped) ==
    calls' = [d \in Callers |->
                IF d = c
                THEN [call |-> call, returned |-> returned,
                      overlapped |-> overlapped \/ calls[d].overlapped]
                ELSE [call |-> IF calls[d].call.pc = "idle"
                               THEN calls[d].call
                               ELSE [calls[d].call EXCEPT !.alone = FALSE],
                      returned |-> calls[d].returned,
                      overlapped |-> calls[d].overlapped
                                     \/ (overlapped /\ calls[d].call.pc = "commit")]]

\* raise RuntimeError("Failed to create default user")
RaiseRuntimeError(op) == [op |-> op, outcome |-> "runtime_error", rows |-> <<>>]

\* create_user, lines 15-20: the existence check.
create_user_select(c, name, email) ==
    /\ calls[c].call.pc = "idle"
    /\ IF select_user_by_email(email) # {}
       THEN /\ ret' = ReturnNone("create_user")
            /\ Step(c, NoCall, calls[c].returned, FALSE)
       ELSE /\ ret' = ret
            /\ Step(c, InCall("create_user", "insert", name, email, <<>>,
                              NoTime, 1, TRUE, TRUE),
                    calls[c].returned, FALSE)
    /\ UNCHANGED <<users, tasks, now, user_seq, task_seq>>

\* The insert without the unique index on users.email.
create_user_commit_no_unique(c) ==
    /\ calls[c].call.pc = "insert"
    /\ LET call == calls[c].call
           user == User(user_seq + 1, call.name, call.email)
       IN  /\ users' = users \cup {user}
           /\ user_seq' = user_seq + 1
           /\ ret' = ReturnRow(call.op, user)
           /\ Step(c, NoCall, calls[c].returned, FALSE)
           /\ UNCHANGED <<tasks, now, task_seq>>

\* create_user, lines 22-26: the insert and its commit.  users.email is
\* unique (models.py, Field(unique=True)): the insert of an email stored
\* since the check fails with an IntegrityError, which the caller sees.
create_user_commit(c) ==
    /\ calls[c].call.pc = "insert"
    /\ LET call == calls[c].call
           user == User(user_seq + 1, call.name, call.email)
       IN  IF select_user_by_email(call.email) # {}
           THEN /\ ret' = Raise(call.op)
                /\ Step(c, NoCall, calls[c].returned, FALSE)
                /\ UNCHANGED <<users, tasks, now, user_seq, task_seq>>
           ELSE /\ users' = users \cup {user}
                /\ user_seq' = user_seq + 1
                /\ ret' = ReturnRow(call.op, user)
                /\ Step(c, NoCall, calls[c].returned, FALSE)
                /\ UNCHANGED <<tasks, now, task_seq>>

\* The lookup done in a session the method keeps open around its call of
\* create_user.
get_or_create_default_user_lookup_unreleased(c) ==
    /\ calls[c].call.pc = "idle"
    /\ \E r \in First(select_user_by_email(DefaultEmail)) :
          IF r # <<>>
          THEN /\ ret' = ReturnRow("get_or_create_default_user", r[1])
               /\ Step(c, NoCall, calls[c].returned, FALSE)
          ELSE /\ ret' = ret
               /\ Step(c, InCall("get_or_create_default_user", "create",
                                 DefaultName, DefaultEmail, <<>>, NoTime, 1,
                                 TRUE, TRUE),
                       calls[c].returned, FALSE)
    /\ UNCHANGED <<users, tasks, now, user_seq, task_seq>>

\* get_or_create_default_user, lines 50-54: get_user_by_email in a scope of
\* its own.
get_or_create_default_user_lookup(c) ==
    /\ calls[c].call.pc = "idle"
    /\ \E r \in First(select_user_by_email(DefaultEmail)) :
          IF r # <<>>
          THEN /\ ret' = ReturnRow("get_or_create_default_user", r[1])
               /\ Step(c, NoCall, calls[c].returned, FALSE)
          ELSE /\ ret' = ret
               /\ Step(c, InCall("get_or_create_default_user", "create",
                                 DefaultName, DefaultEmail, <<>>, NoTime, 1,
                                 FALSE, TRUE),
                       calls[c].returned, FALSE)
    /\ UNCHANGED <<users, tasks, now, user_seq, task_seq>>

\* The second half returning create_user's None to the caller.
get_or_create_default_user_create_soft(c) ==
    /\ calls[c].call.pc = "create"
    /\ IF select_user_by_email(DefaultEmail) # {}
       THEN /\ ret' = ReturnNone("get_or_create_default_user")
            /\ Step(c, NoCall, calls[c].returned, FALSE)
       ELSE /\ ret' = ret
            /\ Step(c, [calls[c].call EXCEPT !.pc = "insert", !.scopes = @ + 1,
                                             !.session = TRUE],
                    calls[c].returned, FALSE)
    /\ UNCHANGED <<users, tasks, now, user_seq, task_seq>>

\* get_or_create_default_user, lines 56-61: the call of create_user, which
\* opens its own scope and checks again (lines 15-20); its None becomes a
\* RuntimeError.  Its insert is create_user_commit.
get_or_create_default_user_create(c) ==
    /\ calls[c].call.pc = "create"
    /\ IF select_user_by_email(DefaultEmail) # {}
       THEN /\ ret' = RaiseRuntimeError("get_or_create_default_user")
            /\ Step(c, NoCall, calls[c].returned, FALSE)
       ELSE /\ ret' = ret
            /\ Step(c, [calls[c].call EXCEPT !.pc = "insert", !.scopes = @ + 1,
                                             !.session = TRUE],
                    calls[c].returned, FALSE)
    /\ UNCHANGED <<users, tasks, now, user_seq, task_seq>>

\* What the datastore does with a commit that writes a row another caller
\* changed after this caller read it.  The stores add no locking and no
\* version check, and the isolation of a session scope is the datastore's:
\* it may take the write, or turn the commit down.
StaleCommit == {"write", "raise"}

\* toggle_task_completion, lines 68-74: the read of the task; the inverted
\* value and the timestamp are computed from what was read.
toggle_task_completion_get(c, task_id) ==
    /\ calls[c].call.pc = "idle"
    /\ IF session_get_task(task_id) = {}
       THEN /\ ret' = ReturnNone("toggle_task_completion")
            /\ Step(c, NoCall, calls[c].returned, FALSE)
       ELSE \E task \in session_get_task(task_id) :
              /\ ret' = ret
              /\ Step(c, InCall("toggle_task_completion", "commit", "", "",
                                <<task>>, now, 1, TRUE, TRUE),
                      calls[c].returned,
                      \E d \in Callers \ {c} : calls[d].call.pc = "commit")
    /\ UNCHANGED <<users, tasks, now, user_seq, task_seq>>

\* The write as "mark as done": completed is set, whatever was read.
toggle_task_completion_commit_set(c) ==
    /\ calls[c].call.pc = "commit"
    /\ LET call == calls[c].call
           read == call.task[1]
       IN  \E row \in session_get_task(read.id) :
             LET toggled == [row EXCEPT !.completed = TRUE,
                                        !.updated_at = call.stamp]
             IN  /\ tasks' = (tasks \ {row}) \cup {toggled}
                 /\ ret' = ReturnRow(call.op, toggled)
                 /\ Step(c, NoCall, 1 - calls[c].returned, FALSE)
                 /\ UNCHANGED <<users, now, user_seq, task_seq>>

\* toggle_task_completion, lines 75-78: the commit writes completed and
\* updated_at of the row with the id that was read, and the refresh returns
\* the stored row.  An update that matches no row raises (StaleDataError).
toggle_task_completion_commit(c) ==
    /\ calls[c].call.pc = "commit"
    /\ LET call == calls[c].call
           read == call.task[1]
       IN  IF session_get_task(read.id) = {}
           THEN /\ ret' = Raise(call.op)
                /\ Step(c, NoCall, calls[c].returned, FALSE)
                /\ UNCHANGED <<users, tasks, now, user_seq, task_seq>>
           ELSE \E row \in session_get_task(read.id) :
                \E outcome \in IF row = read THEN {"write"} ELSE StaleCommit :
                  IF outcome = "raise"
                  THEN /\ ret' = Raise(call.op)
                       /\ Step(c, NoCall, calls[c].returned, FALSE)
                       /\ UNCHANGED <<users, tasks, now, user_seq, task_seq>>
                  ELSE LET toggled == [row EXCEPT
                                         !.completed = ~read.completed,
                                         !.updated_at = call.stamp]
                       IN  /\ tasks' = (tasks \ {row}) \cup {toggled}
                           /\ ret' = ReturnRow(call.op, toggled)
                           /\ Step(c, NoCall, 1 - calls[c].returned, FALSE)
                           /\ UNCHANGED <<users, now, user_seq, task_seq>>

----------------------------------------------------------------------------
\* The clock.

Tick ==
    /\ now < MaxTime
    /\ now' = now + 1
    /\ UNCHANGED <<users, tasks, user_seq, task_seq, ret, calls>>

----------------------------------------------------------------------------
Init ==
    /\ users = {}
    /\ tasks = {}
    /\ now = 0
    /\ user_seq = 0
    /\ task_seq = 0
    /\ ret = ReturnNone("init")
    /\ calls = [c \in Callers |->
                  [call |-> NoCall, returned |-> 0, overlapped |-> FALSE]]

\* The model stops creating tasks once the table has handed out `bound`
\* ids; a create_task that finds no owner inserts nothing and stays enabled.
WithinBound(user_id, bound) ==
    session_get_user(user_id) # {} => task_seq < bound

\* The user store alone.
NextUsers ==
    \/ Tick
    \/ \E name \in Names, email \in Emails : create_user(name, email)
    \/ \E user_id \in UserIds : get_user_by_id(user_id)
    \/ \E email \in Emails : get_user_by_email(email)
    \/ get_all_users
    \/ get_or_create_default_user

SpecUsers == Init /\ [][NextUsers]_vars

\* The user store called by concurrent callers.
NextUsersConcurrent ==
    \/ Tick
    \/ \E c \in Callers, name \in Names, email \in Emails :
          create_user_select(c, name, email)
    \/ \E c \in Callers : create_user_commit(c)
    \/ \E c \in Callers : get_or_create_default_user_lookup(c)
    \/ \E c \in Callers : get_or_create_default_user_create(c)

SpecUsersConcurrent == Init /\ [][NextUsersConcurrent]_vars

\* Concurrent callers toggling the tasks of the default user.
NextToggleConcurrent ==
    \/ Tick
    \/ get_or_create_default_user
    \/ \E user_id \in UserIds :
          /\ WithinBound(user_id, MaxTasks)
          /\ create_task("t1", "", user_id)
    \/ \E c \in Callers, task_id \in TaskIds :
          toggle_task_completion_get(c, task_id)
    \/ \E c \in Callers : toggle_task_completion_commit(c)

SpecToggleConcurrent == Init /\ [][NextToggleConcurrent]_vars

\* The task store under the default user, with every input of every call.
NextTasks ==
    \/ Tick
    \/ get_or_create_default_user
    \/ \E title \in Titles, description \in Descriptions, user_id \in UserIds :
          /\ WithinBound(user_id, MaxTasks)
          /\ create_task(title, description, user_id)
    \/ \E task_id \in TaskIds : get_task_by_id(task_id)
    \/ \E task_id \in TaskIds, task_data \in TaskUpdate :
          update_task(task_id, task_data)
    \/ \E task_id \in TaskIds : toggle_task_completion(task_id)
    \/ \E task_id \in TaskIds : delete_task(task_id)

SpecTasks == Init /\ [][NextTasks]_vars

\* The calls that write a task's fields, for the properties of update_task.
NextUpdate ==
    \/ Tick
    \/ get_or_create_default_user
    \/ \E title \in Titles, description \in Descriptions, user_id \in UserIds :
          /\ WithinBound(user_id, MaxTasks)
          /\ create_task(title, description, user_id)
    \/ \E task_id \in TaskIds, task_data \in TaskUpdate :
          update_task(task_id, task_data)

SpecUpdate == Init /\ [][NextUpdate]_vars

\* The updates that leave the description alone.
CompletedUpdates ==
    UNION {[fields_set : {F},
            title : Passed("title", F, NewTitles),
            description : {<<>>},
            completed : Passed("completed", F, BOOLEAN)] :
           F \in SUBSET {"title", "completed"}}
    \cup {[fields_set |-> {"completed"}, title |-> <<>>,
           description |-> <<>>, completed |-> <<>>]}

\* The calls of both stores on several tasks of one user, at one instant.
NextCompleted ==
    \/ create_user("Ann", "ann@todo.app")
    \/ \E user_id \in UserIds :
          /\ WithinBound(user_id, MaxListedTasks)
          /\ create_task("t1", "d1", user_id)
    \/ \E user_id \in UserIds : get_user_tasks(user_id, <<TRUE>>)
    \/ \E task_id \in ListedTaskIds : get_task_by_id(task_id)
    \/ \E task_id \in ListedTaskIds, task_data \in CompletedUpdates :
          update_task(task_id, task_data)
    \/ \E task_id \in ListedTaskIds : toggle_task_completion(task_id)
    \/ \E task_id \in ListedTaskIds : delete_task(task_id)

SpecCompleted == Init /\ [][NextCompleted]_vars

\* Listing the tasks of several users; completed changes by toggling.
NextListing ==
    \/ Tick
    \/ \E email \in Emails : create_user(DefaultName, email)
    \/ \E user_id \in UserIds :
          /\ WithinBound(user_id, MaxListedTasks)
          /\ create_task("t1", "", user_id)
    \/ \E user_id \in UserIds, completed \in Opt(BOOLEAN) :
          get_user_tasks(user_id, completed)
    \/ \E task_id \in ListedTaskIds : toggle_task_completion(task_id)
    \/ \E task_id \in ListedTaskIds : delete_task(task_id)

SpecListing == Init /\ [][NextListing]_vars

\* The same calls at one instant: every task has the same created_at, so a
\* list may come back in any order of its rows.
NextFiltering ==
    \/ \E email \in Emails : create_user(DefaultName, email)
    \/ \E user_id \in UserIds :
          /\ WithinBound(user_id, MaxListedTasks)
          /\ create_task("t1", "", user_id)
    \/ \E user_id \in UserIds, completed \in Opt(BOOLEAN) :
          get_user_tasks(user_id, completed)
    \/ \E task_id \in ListedTaskIds : toggle_task_completion(task_id)
    \/ \E task_id \in ListedTaskIds : delete_task(task_id)

SpecFiltering == Init /\ [][NextFiltering]_vars

----------------------------------------------------------------------------
\* Properties of the user store.

\* C1: create_user with an email some user already holds returns None, does
\* not raise, adds no user and leaves every stored user as it was.
C1_DuplicateEmailRejected ==
    [][\A name \in Names, email \in Emails :
          (select_user_by_email(email) # {} /\ create_user(name, email))
          => /\ ret' = ReturnNone("create_user")
             /\ users' = users]_vars

\* A duplicate create_user has just returned None.
C1_Witness ==
    /\ ret = ReturnNone("create_user")
    /\ users # {}

\* C2: create_user with an email no user holds returns a user with an id no
\* earlier user had (no step removes a user or changes a user's id, so the
\* earlier users are the stored ones), the given name and email and
\* is_active = TRUE; get_user_by_email(email) called next returns a user
\* with that id.
C2_CreateUserFresh ==
    [][/\ \A u \in users : \E v \in users' : v.id = u.id
       /\ \A name \in Names, email \in Emails :
            (select_user_by_email(email) = {} /\ create_user(name, email))
            => /\ ret'.outcome = "value"
               /\ Len(ret'.rows) = 1
               /\ ret'.rows[1].id \notin {u.id : u \in users}
               /\ ret'.rows[1].name = name
               /\ ret'.rows[1].email = email
               /\ ret'.rows[1].is_active = TRUE
               /\ \A r \in First(select_user_by_email(email))' :
                    /\ r # <<>>
                    /\ r[1].id = ret'.rows[1].id]_vars

\* The second user has just been created.
C2_Witness ==
    /\ ret.op = "create_user"
    /\ ret.outcome = "value"
    /\ Cardinality(users) = 2

\* C11 as stated: every get_or_create_default_user call returns a user named
\* "Default User" with email default@todo.app; a call right after another
\* returns the same id and creates no user; at most one user holds the
\* sentinel email.
C11_DefaultUserAsStated ==
    [][get_or_create_default_user
       => /\ ret'.outcome = "value"
          /\ ret'.rows[1].name = DefaultName
          /\ ret'.rows[1].email = DefaultEmail
          /\ Cardinality(select_user_by_email(DefaultEmail)') <= 1
          /\ ret.op = "get_or_create_default_user"
             => /\ ret'.rows[1].id = ret.rows[1].id
                /\ users' = users]_vars

\* C11, amended: every get_or_create_default_user call returns the one
\* stored user with email default@todo.app; its name is "Default User" when
\* no user held that email before the call; when one did, the call returns
\* that user and creates none, so a call right after another returns the
\* same id; at most one user holds the sentinel email.
C11_IdempotentBootstrap ==
    [][get_or_create_default_user
       => /\ ret'.outcome = "value"
          /\ select_user_by_email(DefaultEmail)' = {ret'.rows[1]}
          /\ select_user_by_email(DefaultEmail) = {}
             => /\ ret'.rows[1].name = DefaultName
                /\ users' = users \cup {ret'.rows[1]}
          /\ select_user_by_email(DefaultEmail) # {}
             => /\ ret'.rows[1] \in users
                /\ users' = users
          /\ ret.op = "get_or_create_default_user"
             => /\ ret'.rows[1].id = ret.rows[1].id
                /\ users' = users]_vars

\* get_or_create_default_user has just returned a sentinel user stored at an
\* earlier instant, after another user was stored.
C11_Witness ==
    /\ ret.op = "get_or_create_default_user"
    /\ ret.rows[1].id = 2
    /\ ret.rows[1].created_at < now
    /\ Cardinality(users) = 2

----------------------------------------------------------------------------
\* Properties of listing (SpecListing for the order, SpecFiltering for the
\* rows).

\* The rows of a returned list.
Rows(s) == {s[i] : i \in 1 .. Len(s)}

\* Task ids are handed out in increasing order, so of two stored tasks the
\* one with the larger id was created by the later create_task call.
CreatedLater(t2, t1) == t2.id > t1.id

\* C4: get_user_tasks(user_id) returns a task created by a later create_task
\* call before every task created by an earlier one, and the list is in
\* descending order of created_at.
C4_NewestFirst ==
    \A user_id \in UserIds : \A s \in select_user_tasks(user_id, <<>>) :
        \A i, j \in 1 .. Len(s) :
            /\ CreatedLater(s[i], s[j]) => i < j
            /\ i < j => s[i].created_at >= s[j].created_at

\* C5: get_user_tasks(user_id, completed=c) returns exactly the user's tasks
\* with completed = c, get_user_tasks(user_id) exactly the user's tasks,
\* each once; with no matching task the one possible result is the empty
\* list.
C5_FilterExact ==
    \A user_id \in UserIds :
        LET mine(c) == {t \in tasks : t.user_id = user_id /\ t.completed = c}
        IN  /\ \A c \in BOOLEAN :
                 /\ select_user_tasks(user_id, <<c>>) # {}
                 /\ \A s \in select_user_tasks(user_id, <<c>>) :
                      /\ Rows(s) = mine(c)
                      /\ Len(s) = Cardinality(mine(c))
            /\ select_user_tasks(user_id, <<>>) # {}
            /\ \A s \in select_user_tasks(user_id, <<>>) :
                 /\ Rows(s) = mine(TRUE) \cup mine(FALSE)
                 /\ Len(s) = Cardinality(mine(TRUE)) + Cardinality(mine(FALSE))

\* A filtered list of one task has just been returned for a user who has
\* one active and one completed task.
C5_Witness ==
    /\ ret.op = "get_user_tasks"
    /\ Len(ret.rows) = 1
    /\ \E t1, t2 \in tasks :
          /\ t1.user_id = t2.user_id
          /\ t1.completed
          /\ ~t2.completed
          /\ ret.rows[1] = t1

\* C6: every task get_user_tasks(B) returns has user_id = B, under any filter,
\* and every stored task with user_id = B is in the unfiltered list.
C6_Isolation ==
    \A user_id \in UserIds :
        /\ \A completed \in Opt(BOOLEAN) :
             \A s \in select_user_tasks(user_id, completed) :
                \A i \in 1 .. Len(s) : s[i].user_id = user_id
        /\ \A s \in select_user_tasks(user_id, <<>>) :
             \A t \in tasks : t.user_id = user_id => t \in Rows(s)

\* Two users own a task each, and the list just returned for one of them
\* holds that user's task alone.
C6_Witness ==
    /\ ret.op = "get_user_tasks"
    /\ Len(ret.rows) = 1
    /\ \E t \in tasks : t.user_id # ret.rows[1].user_id
    /\ Cardinality(users) = 2

\* C14: in every reachable state the user_id of every stored task is the id
\* of exactly one stored user.
C14_OwnerExists ==
    \A t \in tasks : Cardinality(session_get_user(t.user_id)) = 1

\* Tasks of two users are stored, one of them toggled, and a create_task
\* for a user that does not exist has just been turned down.
C14_Witness ==
    /\ ret = ReturnNone("create_task")
    /\ Cardinality({t.user_id : t \in tasks}) = 2
    /\ \E t \in tasks : t.completed

----------------------------------------------------------------------------
\* Properties of the task store (SpecTasks).

\* C3: create_task with a user_id that is the id of no user returns None,
\* does not raise, and leaves the stored tasks exactly as they were.
C3_CreateTaskNoUser ==
    [][\A title \in Titles, description \in Descriptions, user_id \in UserIds :
          (session_get_user(user_id) = {}
           /\ create_task(title, description, user_id))
          => /\ ret' = ReturnNone("create_task")
             /\ tasks' = tasks]_vars

\* create_task has just returned None while a task is stored.
C3_Witness ==
    /\ ret = ReturnNone("create_task")
    /\ tasks # {}

\* C7: toggle_task_completion on a stored task returns that task, as stored,
\* with completed inverted and updated_at set; called again right after a
\* toggle of the same task, it returns completed inverted from what the
\* first toggle returned, which is the value before the first toggle.
C7_ToggleInverts ==
    [][\A task_id \in TaskIds : \A t \in session_get_task(task_id) :
          toggle_task_completion(task_id)
          => /\ ret'.op = "toggle_task_completion"
             /\ ret'.outcome = "value"
             /\ Len(ret'.rows) = 1
             /\ ret'.rows[1] \in tasks'
             /\ ret'.rows[1].id = task_id
             /\ ret'.rows[1].completed = ~t.completed
             /\ ret'.rows[1].updated_at # NoTime
             /\ ret'.rows[1].updated_at >= t.created_at
             /\ (ret.op = "toggle_task_completion" /\ ret.outcome = "value"
                 /\ ret.rows[1].id = task_id)
                => /\ ret.rows[1].completed = ~ret'.rows[1].completed
                   /\ t.completed = ret.rows[1].completed]_vars

\* A toggle has just returned a task to completed = FALSE.
C7_Witness ==
    /\ ret.op = "toggle_task_completion"
    /\ ret.outcome = "value"
    /\ ret.rows[1].completed = FALSE
    /\ ret.rows[1] \in tasks

C10_MissingTask ==
    [][\A task_id \in TaskIds :
          session_get_task(task_id) = {}
          => /\ ret'.op = "update_task"
                => \A task_data \in TaskUpdate :
                     update_task(task_id, task_data)
                     => /\ ret' = ReturnNone("update_task")
                        /\ tasks' = tasks
                        /\ users' = users
             /\ toggle_task_completion(task_id)
                => /\ ret' = ReturnNone("toggle_task_completion")
                   /\ tasks' = tasks
                   /\ users' = users
             /\ delete_task(task_id)
                => /\ ret' = ReturnBool("delete_task", FALSE)
                   /\ tasks' = tasks
                   /\ users' = users]_vars

\* A call on a missing id has just returned while a task is stored.
C10_Witness ==
    /\ tasks # {}
    /\ ret \in {ReturnNone("update_task"), ReturnNone("toggle_task_completion"),
                ReturnBool("delete_task", FALSE)}

\* C12: a task is created with updated_at absent; a stored task's row
\* changes only in an update_task or toggle_task_completion call that
\* returns it, and every such call stores updated_at = the time of the call
\* (so updated_at is absent exactly on the tasks no such call has returned
\* since their creation); updated_at, when present, is at or after
\* created_at.
C12_UpdatedAt ==
    [][/\ \A u \in tasks' :
            /\ u.updated_at # NoTime => u.updated_at >= u.created_at
            /\ u \notin tasks
               => \/ /\ u.id \notin {t.id : t \in tasks}
                     /\ u.updated_at = NoTime
                  \/ /\ ret'.op \in {"update_task", "toggle_task_completion"}
                     /\ ret'.rows = <<u>>
                     /\ u.updated_at = now
       /\ \A task_id \in TaskIds :
            (toggle_task_completion(task_id) /\ ret'.outcome = "value")
            => /\ ret'.rows[1] \in tasks'
               /\ ret'.rows[1].updated_at = now
       /\ (ret'.op = "update_task" /\ ret'.outcome = "value" /\ ret' # ret)
          => /\ ret'.rows[1] \in tasks'
             /\ ret'.rows[1].updated_at = now]_vars

\* A task created at one instant holds the later instant of its last
\* toggle, and an update of it has just raised without touching it.
C12_Witness ==
    /\ ret = Raise("update_task")
    /\ \E t \in tasks : t.updated_at > t.created_at

----------------------------------------------------------------------------
\* Properties under concurrent callers (SpecUsersConcurrent).

\* C13: no two stored users share an email, whatever the interleaving of the
\* callers' create_user and get_or_create_default_user calls, two existence
\* checks for one email that both complete before either insert included.
C13_EmailUnique ==
    \A u, v \in users : u.email = v.email => u = v

\* Two callers checked the same email before either inserted: one insert
\* is stored and the other has just failed on the unique index.
C13_Witness ==
    /\ ret = Raise("create_user")
    /\ Cardinality(users) = 1
    /\ \A c \in Callers : calls[c].call.pc = "idle"

C16_FatalOnlyOnRace ==
    [][/\ \A c \in Callers :
            get_or_create_default_user_create(c)
            => /\ calls[c].call.alone
                  => /\ select_user_by_email(DefaultEmail) = {}
                     /\ calls'[c].call.pc = "insert"
                     /\ ret' = ret
               /\ select_user_by_email(DefaultEmail) # {}
                  => /\ ret' = RaiseRuntimeError("get_or_create_default_user")
                     /\ calls'[c].call = NoCall
                     /\ users' = users
       /\ (ret' # ret /\ ret'.outcome = "runtime_error")
          => \E c \in Callers :
               /\ calls[c].call.pc = "create"
               /\ ~calls[c].call.alone
               /\ calls'[c].call = NoCall]_vars

\* get_or_create_default_user has just raised RuntimeError: the other
\* caller stored the sentinel user between its lookup and its create_user.
C16_Witness ==
    /\ ret = RaiseRuntimeError("get_or_create_default_user")
    /\ select_user_by_email(DefaultEmail) # {}

----------------------------------------------------------------------------
\* Properties of the completed flag (SpecCompleted).

\* C17: a task is stored with completed = FALSE; the completed flag of a
\* stored task changes only in a toggle_task_completion or update_task call
\* that returns that task; a toggle of a stored task always inverts it; an
\* update_task that returns the task leaves it at the value passed for
\* completed, FALSE included, whatever it was, and as it was when completed
\* was not passed; an update_task that raises leaves it as it was.
C17_CompletedTransitions ==
    [][/\ \A u \in tasks' :
            u.id \notin {t.id : t \in tasks} => u.completed = FALSE
       /\ \A t \in tasks : \A u \in tasks' :
            (u.id = t.id /\ u.completed # t.completed)
            => /\ ret'.op \in {"toggle_task_completion", "update_task"}
               /\ ret'.rows = <<u>>
       /\ \A task_id \in ListedTaskIds : \A t \in session_get_task(task_id) :
            toggle_task_completion(task_id)
            => \A u \in session_get_task(task_id)' :
                 u.completed = ~t.completed
       /\ ret'.op = "update_task"
          => \A task_id \in ListedTaskIds :
               (ret'.outcome = "value" => ret'.rows[1].id = task_id)
               => \A t \in session_get_task(task_id) :
                    \A task_data \in CompletedUpdates :
                      update_task(task_id, task_data)
                      => \A u \in session_get_task(task_id)' :
                           IF /\ ret'.outcome = "value"
                              /\ "completed" \in task_data.fields_set
                           THEN <<u.completed>> = task_data.completed
                           ELSE u.completed = t.completed]_vars

\* update_task has just returned a task, never retitled, as active while
\* another task is completed.
C17_Witness ==
    /\ ret.op = "update_task"
    /\ ret.outcome = "value"
    /\ ret.rows[1].completed = FALSE
    /\ ret.rows[1].title = "t1"
    /\ \E t \in tasks : t.id # ret.rows[1].id /\ t.completed

----------------------------------------------------------------------------
\* Properties of concurrent toggles (SpecToggleConcurrent).  Tasks are
\* created active and only toggles write them, so after toggles that each
\* inverted one task the number of completed tasks is odd exactly when the
\* number of toggles that returned a task is.

\* The parity of the number of toggle calls that have returned a task.
ReturnedParity ==
    Cardinality({c \in Callers : calls[c].returned = 1}) % 2

\* The parity of the number of completed tasks.
CompletedParity ==
    Cardinality({t \in tasks : t.completed}) % 2

\* C18 as stated: when every toggle call has returned, whatever the
\* interleaving, each task is completed exactly when an odd number of
\* toggles of it returned.
C18_NoLostToggleAsStated ==
    (\A c \in Callers : calls[c].call.pc = "idle")
    => CompletedParity = ReturnedParity

\* C18, amended: when every toggle call has returned and none of them ran
\* while another was between its read and its commit, each task is
\* completed exactly when an odd number of toggles of it returned.
C18_NoLostToggleSequential ==
    (\A c \in Callers : calls[c].call.pc = "idle" /\ ~calls[c].overlapped)
    => CompletedParity = ReturnedParity

\* Each caller has toggled once, one after the other, and the task is
\* active again.
C18_Witness ==
    /\ \A c \in Callers :
         /\ calls[c].call.pc = "idle"
         /\ ~calls[c].overlapped
         /\ calls[c].returned = 1
    /\ tasks # {}
    /\ \A t \in tasks : ~t.completed /\ t.updated_at # NoTime

====
